---- MODULE Spec2Model ----
(***************************************************************************)
(* Model of the three line rasterizers of src/Main.cpp: renderLine,        *)
(* renderLineAA and renderDecayLine.  One call is executed one loop        *)
(* iteration at a time.  Every img[y][x].set(c) of the source appends one  *)
(* entry [pos, a, line] to the log img: the position written, the alpha of *)
(* the colour written and the source line of the set statement.            *)
(*                                                                         *)
(* Alpha values and rates are doubles in the source.  They are modelled as *)
(* exact rationals <<numerator, denominator>> in lowest terms; floating    *)
(* point rounding is not modelled.                                         *)
(***************************************************************************)
EXTENDS Integers, Sequences, FiniteSets, TLC

(* ------------------------------ bounds --------------------------------- *)
\* the buffer is (MaxX + 1) x (MaxY + 1) pixels
MaxX == 4
MaxY == 3
\* rates are drawn from -1/RateDen .. (RateDen + 1)/RateDen
RateDen == 2
\* base alphas are drawn from 0/AlphaDen .. AlphaDen/AlphaDen
AlphaDen == 2

(* ----------------------------- rationals ------------------------------- *)
Abs(n) == IF n < 0 THEN -n ELSE n

RECURSIVE GCD(_, _)
GCD(a, b) == IF b = 0 THEN a ELSE GCD(b, a % b)

\* n/d (d > 0) in lowest terms
Rat(n, d) == LET g == GCD(Abs(n), d) IN <<n \div g, d \div g>>

RLess(p, q) == p[1] * q[2] < q[1] * p[2]
RSub(p, q) == Rat(p[1] * q[2] - q[1] * p[2], p[2] * q[2])
RMul(p, q) == Rat(p[1] * q[1], p[2] * q[2])
RDivInt(p, k) == Rat(p[1], p[2] * k)
Zero == <<0, 1>>
One == <<1, 1>>

\* conversion double -> int32 of the product of an int and a double:
\* truncation toward zero
TruncMul(k, r) ==
    LET n == k * r[1]
    IN  IF n >= 0 THEN n \div r[2] ELSE -((-n) \div r[2])

\* if (r < 0.0) r = 0.0; if (r > 1.0) r = 1.0;
Clamp(r) ==
    LET r0 == IF RLess(r, Zero) THEN Zero ELSE r
    IN  IF RLess(One, r0) THEN One ELSE r0

(* ------------------------------ inputs --------------------------------- *)
Points == (0..MaxX) \X (0..MaxY)
DecayRates == {Rat(k, RateDen) : k \in (-1)..(RateDen + 1)}
DefaultAaColorRate == <<3, 10>>
DefaultDecaySectionRate == <<1, 2>>
AaRates == {<<-1, 2>>, DefaultAaColorRate, <<3, 2>>}
Alphas == {Rat(k, AlphaDen) : k \in 0..AlphaDen}
Functions == {"renderLine", "renderLineAA", "renderDecayLine"}

InBuffer(p) == p \in Points

(* ------------------------------- state --------------------------------- *)
VARIABLES
    fn,                \* the function called
    startPos, endPos,  \* its arguments
    col,               \* col.a (renderDecayLine fades it in place)
    aaColorRate, decaySectionRate,
    pc,                \* position of the call
    now, e,            \* current position, error accumulator
    aaCol,             \* aaCol.a
    decayLen, split,   \* decayLen, splitX / splitY
    alphaFadeVol,
    img                \* the log of pixel writes

vars == <<fn, startPos, endPos, col, aaColorRate, decaySectionRate, pc, now, e,
          aaCol, decayLen, split, alphaFadeVol, img>>

\* the frame of the running call
Cur == [startPos |-> startPos, endPos |-> endPos, col |-> col,
        aaColorRate |-> aaColorRate, decaySectionRate |-> decaySectionRate,
        pc |-> pc, now |-> now, e |-> e, aaCol |-> aaCol,
        decayLen |-> decayLen, split |-> split, alphaFadeVol |-> alphaFadeVol,
        img |-> img]

Assign(s) ==
    /\ startPos' = s.startPos /\ endPos' = s.endPos /\ col' = s.col
    /\ aaColorRate' = s.aaColorRate /\ decaySectionRate' = s.decaySectionRate
    /\ pc' = s.pc /\ now' = s.now /\ e' = s.e /\ aaCol' = s.aaCol
    /\ decayLen' = s.decayLen /\ split' = s.split
    /\ alphaFadeVol' = s.alphaFadeVol /\ img' = s.img
    /\ fn' = fn

\* the frame at the call: arguments bound, locals not yet set
Frame(sp, ep, a, aa, dr) ==
    [startPos |-> sp, endPos |-> ep, col |-> a, aaColorRate |-> aa,
     decaySectionRate |-> dr, pc |-> "entry", now |-> <<0, 0>>, e |-> 0,
     aaCol |-> Zero, decayLen |-> 0, split |-> 0, alphaFadeVol |-> Zero,
     img |-> <<>>]

(* -------------------------- shared set-up ------------------------------ *)
\* dist: absolute distances; step: direction from end toward start
Dist(s) == <<Abs(s.endPos[1] - s.startPos[1]), Abs(s.endPos[2] - s.startPos[2])>>
StepOf(s) == <<IF s.endPos[1] >= s.startPos[1] THEN -1 ELSE 1,
               IF s.endPos[2] >= s.startPos[2] THEN -1 ELSE 1>>
Dist2(s) == <<2 * Dist(s)[1], 2 * Dist(s)[2]>>

\* img[p.y][p.x].set(colour with alpha a), at source line ln
Set(log, p, a, ln) == Append(log, [pos |-> p, a |-> a, line |-> ln])

\* x-major when dist.x >= dist.y
XMajor(s) == Dist(s)[1] >= Dist(s)[2]

(* ----------------------------- renderLine ------------------------------ *)

\* variant: the accumulator starts at 0 (no rounding to nearest)
renderLineEnterNoRounding(s) ==
    [s EXCEPT !.now = s.endPos,
              !.e = 0,
              !.pc = IF XMajor(s) THEN "x" ELSE "y"]

renderLineEnter(s) ==
    [s EXCEPT !.now = s.endPos,
              !.e = IF XMajor(s) THEN Dist(s)[1] ELSE Dist(s)[2],
              !.pc = IF XMajor(s) THEN "x" ELSE "y"]

\* variant: the minor step needs e > dist2.x instead of e >= dist2.x
renderLineXStrict(s) ==
    LET drawn == Set(s.img, s.now, s.col, 60)
        nx == s.now[1] + StepOf(s)[1]
        e1 == s.e + Dist2(s)[2]
    IN  IF s.now[1] = s.startPos[1]
        THEN [s EXCEPT !.img = drawn, !.pc = "done"]
        ELSE IF e1 > Dist2(s)[1]
             THEN [s EXCEPT !.img = drawn,
                            !.now = <<nx, s.now[2] + StepOf(s)[2]>>,
                            !.e = e1 - Dist2(s)[1]]
             ELSE [s EXCEPT !.img = drawn, !.now = <<nx, s.now[2]>>, !.e = e1]

renderLineX(s) ==
    LET drawn == Set(s.img, s.now, s.col, 60)
        nx == s.now[1] + StepOf(s)[1]
        e1 == s.e + Dist2(s)[2]
    IN  IF s.now[1] = s.startPos[1]
        THEN [s EXCEPT !.img = drawn, !.pc = "done"]
        ELSE IF e1 >= Dist2(s)[1]
             THEN [s EXCEPT !.img = drawn,
                            !.now = <<nx, s.now[2] + StepOf(s)[2]>>,
                            !.e = e1 - Dist2(s)[1]]
             ELSE [s EXCEPT !.img = drawn, !.now = <<nx, s.now[2]>>, !.e = e1]

renderLineY(s) ==
    LET drawn == Set(s.img, s.now, s.col, 84)
        ny == s.now[2] + StepOf(s)[2]
        e1 == s.e + Dist2(s)[1]
    IN  IF s.now[2] = s.startPos[2]
        THEN [s EXCEPT !.img = drawn, !.pc = "done"]
        ELSE IF e1 >= Dist2(s)[2]
             THEN [s EXCEPT !.img = drawn,
                            !.now = <<s.now[1] + StepOf(s)[1], ny>>,
                            !.e = e1 - Dist2(s)[2]]
             ELSE [s EXCEPT !.img = drawn, !.now = <<s.now[1], ny>>, !.e = e1]

(* ---------------------------- renderLineAA ----------------------------- *)
renderLineAAEnter(s) ==
    LET rate == Clamp(s.aaColorRate)
    IN  [s EXCEPT !.now = s.endPos,
                  !.aaColorRate = rate,
                  !.aaCol = RMul(s.col, rate),
                  !.e = IF XMajor(s) THEN Dist(s)[1] ELSE Dist(s)[2],
                  !.pc = IF XMajor(s) THEN "x" ELSE "y"]

\* variant: the second AA pixel is written at now.x instead of now.x - step.x
renderLineAAXNoStepBack(s) ==
    LET drawn == Set(s.img, s.now, s.col, 130)
        nx == s.now[1] + StepOf(s)[1]
        e1 == s.e + Dist2(s)[2]
        ny == s.now[2] + StepOf(s)[2]
        aa1 == Set(drawn, <<nx, s.now[2]>>, s.aaCol, 143)
        aa2 == Set(aa1, <<nx, ny>>, s.aaCol, 148)
    IN  IF s.now[1] = s.startPos[1]
        THEN [s EXCEPT !.img = drawn, !.pc = "done"]
        ELSE IF e1 >= Dist2(s)[1]
             THEN [s EXCEPT !.img = aa2, !.now = <<nx, ny>>,
                            !.e = e1 - Dist2(s)[1]]
             ELSE [s EXCEPT !.img = drawn, !.now = <<nx, s.now[2]>>, !.e = e1]

renderLineAAX(s) ==
    LET drawn == Set(s.img, s.now, s.col, 130)
        nx == s.now[1] + StepOf(s)[1]
        e1 == s.e + Dist2(s)[2]
        ny == s.now[2] + StepOf(s)[2]
        aa1 == Set(drawn, <<nx, s.now[2]>>, s.aaCol, 143)
        aa2 == Set(aa1, <<nx - StepOf(s)[1], ny>>, s.aaCol, 148)
    IN  IF s.now[1] = s.startPos[1]
        THEN [s EXCEPT !.img = drawn, !.pc = "done"]
        ELSE IF e1 >= Dist2(s)[1]
             THEN [s EXCEPT !.img = aa2, !.now = <<nx, ny>>,
                            !.e = e1 - Dist2(s)[1]]
             ELSE [s EXCEPT !.img = drawn, !.now = <<nx, s.now[2]>>, !.e = e1]

renderLineAAY(s) ==
    LET drawn == Set(s.img, s.now, s.col, 159)
        ny == s.now[2] + StepOf(s)[2]
        e1 == s.e + Dist2(s)[1]
        nx == s.now[1] + StepOf(s)[1]
        aa1 == Set(drawn, <<s.now[1], ny>>, s.aaCol, 166)
        aa2 == Set(aa1, <<nx, ny - StepOf(s)[2]>>, s.aaCol, 169)
    IN  IF s.now[2] = s.startPos[2]
        THEN [s EXCEPT !.img = drawn, !.pc = "done"]
        ELSE IF e1 >= Dist2(s)[2]
             THEN [s EXCEPT !.img = aa2, !.now = <<nx, ny>>,
                            !.e = e1 - Dist2(s)[2]]
             ELSE [s EXCEPT !.img = drawn, !.now = <<s.now[1], ny>>, !.e = e1]

(* --------------------------- renderDecayLine --------------------------- *)

\* variant: the rate is taken as the share of phase 1
DecayLenOfPhase1Share(s, axis, rate) ==
    TruncMul(s.endPos[axis] - s.startPos[axis], RSub(One, rate))

\* decayLen = (endPos[axis] - startPos[axis]) * decaySectionRate, as int32
DecayLenOf(s, axis, rate) == TruncMul(s.endPos[axis] - s.startPos[axis], rate)

\* variant: decaySectionRate is used unclamped
DecayRateOfUnclamped(s) == s.decaySectionRate

\* the clamped decaySectionRate
DecayRateOf(s) == Clamp(s.decaySectionRate)

renderDecayLineEnter(s) ==
    LET rate == Clamp(s.aaColorRate)
        drate == DecayRateOf(s)
        axis == IF XMajor(s) THEN 1 ELSE 2
        len == DecayLenOf(s, axis, drate)
    IN  [s EXCEPT !.now = s.endPos,
                  !.aaColorRate = rate,
                  !.aaCol = RMul(s.col, rate),
                  !.decaySectionRate = drate,
                  !.e = Dist(s)[axis],
                  !.decayLen = len,
                  !.split = s.startPos[axis] + len,
                  !.pc = IF XMajor(s) THEN "x1" ELSE "y1"]

\* phase 1, x-major: end -> split
renderDecayLineX1(s) ==
    LET drawn == Set(s.img, s.now, s.col, 215)
        nx == s.now[1] + StepOf(s)[1]
        e1 == s.e + Dist2(s)[2]
        ny == s.now[2] + StepOf(s)[2]
        aa1 == Set(drawn, <<nx, s.now[2]>>, s.aaCol, 228)
        aa2 == Set(aa1, <<nx - StepOf(s)[1], ny>>, s.aaCol, 233)
    IN  IF s.now[1] = s.split
        THEN [s EXCEPT !.img = drawn, !.pc = "xsplit"]
        ELSE IF e1 >= Dist2(s)[1]
             THEN [s EXCEPT !.img = aa2, !.now = <<nx, ny>>,
                            !.e = e1 - Dist2(s)[1]]
             ELSE [s EXCEPT !.img = drawn, !.now = <<nx, s.now[2]>>, !.e = e1]

\* variant: the fade is col.a / std::abs(decayLen), without the 1 +
AlphaFadeVolOfNoPlusOne(s) == RDivInt(s.col, Abs(s.decayLen))

\* variant: the division is done on integers
AlphaFadeVolOfIntDiv(s) == <<(s.col[1] \div s.col[2]) \div (1 + Abs(s.decayLen)), 1>>

\* the fade per phase-2 pixel: col.a / (1 + std::abs(decayLen))
AlphaFadeVolOf(s) == RDivInt(s.col, 1 + Abs(s.decayLen))

\* variant: the error accumulator is initialised again for phase 2
renderDecayLineXSplitResetE(s) ==
    IF s.now[1] = s.startPos[1]
    THEN [s EXCEPT !.pc = "done"]
    ELSE [s EXCEPT !.alphaFadeVol = AlphaFadeVolOf(s), !.e = Dist(s)[1],
                   !.pc = "x2"]

\* between the loops, x-major: return at start, else compute alphaFadeVol
renderDecayLineXSplit(s) ==
    IF s.now[1] = s.startPos[1]
    THEN [s EXCEPT !.pc = "done"]
    ELSE [s EXCEPT !.alphaFadeVol = AlphaFadeVolOf(s), !.pc = "x2"]

\* variant: phase 2 keeps the flow of phase 1 (draw, test, then move)
renderDecayLineX2DrawFirst(s) ==
    LET a1 == RSub(s.col, s.alphaFadeVol)
        drawn == Set(s.img, s.now, a1, 259)
        nx == s.now[1] + StepOf(s)[1]
        e1 == s.e + Dist2(s)[2]
        ny == s.now[2] + StepOf(s)[2]
        aa1 == Set(drawn, <<nx, s.now[2]>>, RMul(a1, s.aaColorRate), 253)
        aa2 == Set(aa1, <<nx - StepOf(s)[1], ny>>, RMul(a1, s.aaColorRate), 255)
    IN  IF s.now[1] = s.startPos[1]
        THEN [s EXCEPT !.col = a1, !.img = drawn, !.pc = "done"]
        ELSE IF e1 >= Dist2(s)[1]
             THEN [s EXCEPT !.col = a1, !.img = aa2, !.now = <<nx, ny>>,
                            !.e = e1 - Dist2(s)[1]]
             ELSE [s EXCEPT !.col = a1, !.img = drawn,
                            !.now = <<nx, s.now[2]>>, !.e = e1]

\* phase 2, x-major: split -> start, fading
renderDecayLineX2(s) ==
    LET nx == s.now[1] + StepOf(s)[1]
        e1 == s.e + Dist2(s)[2]
        a1 == RSub(s.col, s.alphaFadeVol)
        ny == s.now[2] + StepOf(s)[2]
        aa1 == Set(s.img, <<nx, s.now[2]>>, RMul(a1, s.aaColorRate), 253)
        aa2 == Set(aa1, <<nx - StepOf(s)[1], ny>>, RMul(a1, s.aaColorRate), 255)
        stepped == IF e1 >= Dist2(s)[1]
                   THEN [s EXCEPT !.col = a1, !.now = <<nx, ny>>,
                                  !.e = e1 - Dist2(s)[1],
                                  !.img = Set(aa2, <<nx, ny>>, a1, 259)]
                   ELSE [s EXCEPT !.col = a1, !.now = <<nx, s.now[2]>>,
                                  !.e = e1,
                                  !.img = Set(s.img, <<nx, s.now[2]>>, a1, 259)]
    IN  IF nx = s.startPos[1] THEN [stepped EXCEPT !.pc = "done"] ELSE stepped

\* phase 1, y-major
renderDecayLineY1(s) ==
    LET drawn == Set(s.img, s.now, s.col, 271)
        ny == s.now[2] + StepOf(s)[2]
        e1 == s.e + Dist2(s)[1]
        nx == s.now[1] + StepOf(s)[1]
        aa1 == Set(drawn, <<s.now[1], ny>>, s.aaCol, 278)
        aa2 == Set(aa1, <<nx, ny - StepOf(s)[2]>>, s.aaCol, 280)
    IN  IF s.now[2] = s.split
        THEN [s EXCEPT !.img = drawn, !.pc = "ysplit"]
        ELSE IF e1 >= Dist2(s)[2]
             THEN [s EXCEPT !.img = aa2, !.now = <<nx, ny>>,
                            !.e = e1 - Dist2(s)[2]]
             ELSE [s EXCEPT !.img = drawn, !.now = <<s.now[1], ny>>, !.e = e1]

renderDecayLineYSplit(s) ==
    IF s.now[2] = s.startPos[2]
    THEN [s EXCEPT !.pc = "done"]
    ELSE [s EXCEPT !.alphaFadeVol = AlphaFadeVolOf(s), !.pc = "y2"]

\* variant: the second AA pixel is written at now.y + step.y
renderDecayLineY2StepForward(s) ==
    LET ny == s.now[2] + StepOf(s)[2]
        e1 == s.e + Dist2(s)[1]
        a1 == RSub(s.col, s.alphaFadeVol)
        nx == s.now[1] + StepOf(s)[1]
        aa1 == Set(s.img, <<s.now[1], ny>>, RMul(a1, s.aaColorRate), 294)
        aa2 == Set(aa1, <<nx, ny + StepOf(s)[2]>>, RMul(a1, s.aaColorRate), 296)
        stepped == IF e1 >= Dist2(s)[2]
                   THEN [s EXCEPT !.col = a1, !.now = <<nx, ny>>,
                                  !.e = e1 - Dist2(s)[2],
                                  !.img = Set(aa2, <<nx, ny>>, a1, 300)]
                   ELSE [s EXCEPT !.col = a1, !.now = <<s.now[1], ny>>,
                                  !.e = e1,
                                  !.img = Set(s.img, <<s.now[1], ny>>, a1, 300)]
    IN  IF ny = s.startPos[2] THEN [stepped EXCEPT !.pc = "done"] ELSE stepped

\* phase 2, y-major
renderDecayLineY2(s) ==
    LET ny == s.now[2] + StepOf(s)[2]
        e1 == s.e + Dist2(s)[1]
        a1 == RSub(s.col, s.alphaFadeVol)
        nx == s.now[1] + StepOf(s)[1]
        aa1 == Set(s.img, <<s.now[1], ny>>, RMul(a1, s.aaColorRate), 294)
        aa2 == Set(aa1, <<nx, ny - StepOf(s)[2]>>, RMul(a1, s.aaColorRate), 296)
        stepped == IF e1 >= Dist2(s)[2]
                   THEN [s EXCEPT !.col = a1, !.now = <<nx, ny>>,
                                  !.e = e1 - Dist2(s)[2],
                                  !.img = Set(aa2, <<nx, ny>>, a1, 300)]
                   ELSE [s EXCEPT !.col = a1, !.now = <<s.now[1], ny>>,
                                  !.e = e1,
                                  !.img = Set(s.img, <<s.now[1], ny>>, a1, 300)]
    IN  IF ny = s.startPos[2] THEN [stepped EXCEPT !.pc = "done"] ELSE stepped

(* ------------------------------ actions -------------------------------- *)
\* A loop iteration is taken only while now is inside the buffer: this caps
\* a walk that has left the segment.
Init ==
    /\ fn \in Functions
    /\ startPos \in Points
    /\ endPos \in Points
    /\ col \in Alphas
    /\ aaColorRate \in (IF fn = "renderLine" THEN {DefaultAaColorRate} ELSE AaRates)
    /\ decaySectionRate \in (IF fn = "renderDecayLine" THEN DecayRates
                             ELSE {DefaultDecaySectionRate})
    /\ pc = "entry"
    /\ now = <<0, 0>>
    /\ e = 0
    /\ aaCol = Zero
    /\ decayLen = 0
    /\ split = 0
    /\ alphaFadeVol = Zero
    /\ img = <<>>

RenderLineEnter ==
    fn = "renderLine" /\ pc = "entry" /\ Assign(renderLineEnter(Cur))
RenderLineX ==
    fn = "renderLine" /\ pc = "x" /\ InBuffer(now) /\ Assign(renderLineX(Cur))
RenderLineY ==
    fn = "renderLine" /\ pc = "y" /\ InBuffer(now) /\ Assign(renderLineY(Cur))
RenderLineAAEnter ==
    fn = "renderLineAA" /\ pc = "entry" /\ Assign(renderLineAAEnter(Cur))
RenderLineAAX ==
    fn = "renderLineAA" /\ pc = "x" /\ InBuffer(now) /\ Assign(renderLineAAX(Cur))
RenderLineAAY ==
    fn = "renderLineAA" /\ pc = "y" /\ InBuffer(now) /\ Assign(renderLineAAY(Cur))
RenderDecayLineEnter ==
    fn = "renderDecayLine" /\ pc = "entry" /\ Assign(renderDecayLineEnter(Cur))
RenderDecayLineX1 ==
    fn = "renderDecayLine" /\ pc = "x1" /\ InBuffer(now)
    /\ Assign(renderDecayLineX1(Cur))
RenderDecayLineXSplit ==
    fn = "renderDecayLine" /\ pc = "xsplit" /\ Assign(renderDecayLineXSplit(Cur))
RenderDecayLineX2 ==
    fn = "renderDecayLine" /\ pc = "x2" /\ InBuffer(now)
    /\ Assign(renderDecayLineX2(Cur))
RenderDecayLineY1 ==
    fn = "renderDecayLine" /\ pc = "y1" /\ InBuffer(now)
    /\ Assign(renderDecayLineY1(Cur))
RenderDecayLineYSplit ==
    fn = "renderDecayLine" /\ pc = "ysplit" /\ Assign(renderDecayLineYSplit(Cur))
RenderDecayLineY2 ==
    fn = "renderDecayLine" /\ pc = "y2" /\ InBuffer(now)
    /\ Assign(renderDecayLineY2(Cur))

Next ==
    \/ RenderLineEnter
    \/ RenderLineX
    \/ RenderLineY
    \/ RenderLineAAEnter
    \/ RenderLineAAX
    \/ RenderLineAAY
    \/ RenderDecayLineEnter
    \/ RenderDecayLineX1
    \/ RenderDecayLineXSplit
    \/ RenderDecayLineX2
    \/ RenderDecayLineY1
    \/ RenderDecayLineYSplit
    \/ RenderDecayLineY2

Spec == Init /\ [][Next]_vars
(* ------------------------ a call run to its end ------------------------ *)
\* the next step of function f from frame s
Body(f, s) ==
    CASE f = "renderLine" /\ s.pc = "entry" -> renderLineEnter(s)
      [] f = "renderLine" /\ s.pc = "x" -> renderLineX(s)
      [] f = "renderLine" /\ s.pc = "y" -> renderLineY(s)
      [] f = "renderLineAA" /\ s.pc = "entry" -> renderLineAAEnter(s)
      [] f = "renderLineAA" /\ s.pc = "x" -> renderLineAAX(s)
      [] f = "renderLineAA" /\ s.pc = "y" -> renderLineAAY(s)
      [] f = "renderDecayLine" /\ s.pc = "entry" -> renderDecayLineEnter(s)
      [] f = "renderDecayLine" /\ s.pc = "x1" -> renderDecayLineX1(s)
      [] f = "renderDecayLine" /\ s.pc = "xsplit" -> renderDecayLineXSplit(s)
      [] f = "renderDecayLine" /\ s.pc = "x2" -> renderDecayLineX2(s)
      [] f = "renderDecayLine" /\ s.pc = "y1" -> renderDecayLineY1(s)
      [] f = "renderDecayLine" /\ s.pc = "ysplit" -> renderDecayLineYSplit(s)
      [] f = "renderDecayLine" /\ s.pc = "y2" -> renderDecayLineY2(s)

\* the frame when the call of f started in frame s returns (or leaves the buffer)
RECURSIVE Run(_, _)
Run(f, s) ==
    IF s.pc = "done" \/ ~InBuffer(s.now) THEN s ELSE Run(f, Body(f, s))

(* ------------------- vocabulary of the properties ---------------------- *)
Major == IF XMajor(Cur) THEN 1 ELSE 2
Minor == 3 - Major
DMajor == Dist(Cur)[Major]
DMinor == Dist(Cur)[Minor]

\* source lines of the set statements: main-line pixels, phase-2 pixels
MainLines == {60, 84, 130, 159, 215, 259, 271, 300}
Phase2Lines == {253, 255, 259, 294, 296, 300}

MainIdx(log) == {i \in 1..Len(log) : log[i].line \in MainLines}
AaIdx(log) == {i \in 1..Len(log) : log[i].line \notin MainLines}
MainPos(log) == {log[i].pos : i \in MainIdx(log)}
AaPos(log) == {log[i].pos : i \in AaIdx(log)}
AllPos(log) == {log[i].pos : i \in 1..Len(log)}

Done(f) == fn = f /\ pc = "done"

(* ------------------------------- C1 ------------------------------------ *)
\* the positions renderLine sets when called with start and end swapped
SwappedPos == AllPos(Run("renderLine",
                  Frame(endPos, startPos, col, aaColorRate, decaySectionRate)).img)

\* some pixel strictly between the end points lies exactly half-way between
\* two minor coordinates: 2*k*dist[minor] = dist[major] (mod 2*dist[major])
HalfwayTie ==
    \E k \in 1..(DMajor - 1) : (2 * k * DMinor) % (2 * DMajor) = DMajor

\* C1 as stated: renderLine(start=A, end=B) and renderLine(start=B, end=A)
\* set the identical set of pixel positions, for all A and B.
C1_SymmetryAsStated == Done("renderLine") => AllPos(img) = SwappedPos

\* C1 amended: the two calls set the identical set of positions exactly when
\* no pixel of the segment falls on a half-way tie; on a tie each direction
\* rounds toward its own start, and the sets differ.
C1_SymmetryUnlessTie ==
    Done("renderLine") => ((AllPos(img) = SwappedPos) <=> ~HalfwayTie)

\* a sloped, non-diagonal segment without tie has been drawn
C1_Witness ==
    /\ Done("renderLine") /\ ~HalfwayTie
    /\ DMinor > 0 /\ DMinor < DMajor
    /\ AllPos(img) = SwappedPos

(* ------------------------------- C6 ------------------------------------ *)
\* the position k major steps from end, rounded to nearest (half toward start)
Nearest(k) ==
    LET off == (2 * k * DMinor + DMajor) \div (2 * DMajor)
        mj == endPos[Major] + k * StepOf(Cur)[Major]
        mn == endPos[Minor] + off * StepOf(Cur)[Minor]
    IN  IF Major = 1 THEN <<mj, mn>> ELSE <<mn, mj>>

\* C6: in renderLine with dist[major] > 0 the pixel k major steps from end
\* lies floor((2*k*dist[minor] + dist[major]) / (2*dist[major])) minor steps
\* from end toward start; 0 <= e < 2*dist[major] after every iteration; a
\* 45-degree segment advances the minor axis on every iteration; the last
\* pixel drawn is start.
C6_RoundToNearest ==
    (fn = "renderLine" /\ pc # "entry" /\ DMajor > 0) =>
        /\ \A i \in 1..Len(img) : img[i].pos = Nearest(i - 1)
        /\ 0 <= e /\ e < 2 * DMajor
        /\ (DMinor = DMajor =>
               \A i \in 1..Len(img) :
                   Abs(img[i].pos[Minor] - endPos[Minor]) = i - 1)
        /\ (pc = "done" =>
               /\ Len(img) = DMajor + 1
               /\ img[Len(img)].pos = startPos)

\* a segment with a half-way tie has been drawn to its end
C6_Witness ==
    Done("renderLine") /\ DMajor > 1 /\ DMinor > 0 /\ HalfwayTie
(* ------------------------------- C4 ------------------------------------ *)
MainSeq(log) == SelectSeq(log, LAMBDA w : w.line \in MainLines)

Between(c, a, b) == (a <= c /\ c <= b) \/ (b <= c /\ c <= a)

\* main-line pixels so far: one per major coordinate, in order from end
C4_PixelCount ==
    LET ms == MainSeq(img)
    IN  /\ Len(ms) <= DMajor + 1
        /\ \A i \in 1..Len(ms) :
               ms[i].pos[Major] = endPos[Major] + (i - 1) * StepOf(Cur)[Major]
        /\ (pc = "done" =>
               /\ Len(ms) = DMajor + 1
               /\ ms[Len(ms)].pos[Major] = startPos[Major])
        /\ (fn = "renderDecayLine" /\ pc # "entry" =>
               /\ Between(split, startPos[Major], endPos[Major])
               /\ (pc \in {"xsplit", "ysplit", "x2", "y2", "done"} =>
                      \E i \in 1..Len(ms) : /\ ms[i].pos[Major] = split
                                            /\ ms[i].line \notin Phase2Lines))

\* the major coordinate the running loop stops at, and the distance to it
Target == IF pc \in {"x1", "y1"} THEN split ELSE startPos[Major]
Remaining == Abs(Target - now[Major])

\* an iteration that stays in its loop brings now one step nearer the
\* coordinate the loop stops at
C4_Variant ==
    (pc \in {"x", "y", "x1", "y1", "x2", "y2"} /\ pc' = pc) =>
        Remaining' = Remaining - 1

\* C4: every call of renderLine, renderLineAA and renderDecayLine, for every
\* start, end and rate (also rates outside [0,1]), terminates (each loop
\* iteration lowers the distance to the coordinate its loop stops at), having
\* set exactly max(dist.x, dist.y) + 1 main-line pixels, one for each major
\* coordinate from end[major] to start[major]; phase 1 of renderDecayLine
\* reaches the split coordinate and phase 2 reaches start[major].
C4_TerminatesWithPixelCount == [](C4_PixelCount) /\ [][C4_Variant]_vars

\* renderDecayLine has returned after both phases, its rate (clamped) being 1
C4_Witness ==
    /\ Done("renderDecayLine") /\ decaySectionRate = One
    /\ Len(MainSeq(img)) = DMajor + 1 /\ DMajor >= 2
    /\ \E i \in 1..Len(img) : img[i].line \in Phase2Lines

(* ------------------------------- C5 ------------------------------------ *)
\* the point with major coordinate mj and minor coordinate mn
Pt(mj, mn) == IF Major = 1 THEN <<mj, mn>> ELSE <<mn, mj>>

\* the main-line writes after which the minor axis advanced
Advances(log) ==
    {i \in MainIdx(log) : i < Len(log) /\ (i + 1) \notin MainIdx(log)}

\* C5: in renderLineAA the minor axis advances exactly dist[minor] times;
\* each advance emits exactly two AA pixels, at (post-step major, minor not
\* yet advanced) and at (pre-step major, minor advanced); 2*dist[minor] AA
\* pixels in all; none for an axis-aligned segment; start=(0,0), end=(4,2)
\* advances y twice with 2 AA pixels each.
C5_AaEmission ==
    Done("renderLineAA") =>
        /\ 1 \in MainIdx(img) /\ Len(img) \in MainIdx(img)
        /\ Cardinality(Advances(img)) = DMinor
        /\ Cardinality(AaIdx(img)) = 2 * DMinor
        /\ \A i \in MainIdx(img) \ {Len(img)} :
               IF (i + 1) \in MainIdx(img)
               THEN img[i + 1].pos[Minor] = img[i].pos[Minor]
               ELSE /\ (i + 2) \in AaIdx(img) /\ (i + 3) \in MainIdx(img)
                    /\ LET p == img[i].pos
                           q == img[i + 3].pos
                       IN  /\ q[Major] = p[Major] + StepOf(Cur)[Major]
                           /\ q[Minor] = p[Minor] + StepOf(Cur)[Minor]
                           /\ img[i + 1].pos = Pt(q[Major], p[Minor])
                           /\ img[i + 2].pos = Pt(p[Major], q[Minor])
        /\ (DMinor = 0 => AaIdx(img) = {})
        /\ (startPos = <<0, 0>> /\ endPos = <<4, 2>> =>
               Cardinality(Advances(img)) = 2 /\ Cardinality(AaIdx(img)) = 4)

\* renderLineAA has drawn the segment start=(0,0), end=(4,2)
C5_Witness ==
    /\ Done("renderLineAA") /\ startPos = <<0, 0>> /\ endPos = <<4, 2>>
    /\ Cardinality(AaIdx(img)) = 4

(* ------------------------------- C7 ------------------------------------ *)
\* the base alpha of the call: the alpha of the pixel drawn at end
BaseAlpha == img[1].a

LineRun == Run("renderLine",
               Frame(startPos, endPos, BaseAlpha, aaColorRate, decaySectionRate)).img
AaRun == Run("renderLineAA",
             Frame(startPos, endPos, BaseAlpha, aaColorRate, decaySectionRate)).img

Phase1Idx(log) == {i \in 1..Len(log) : log[i].line \notin Phase2Lines}

\* C7: renderDecayLine sets main-line pixels at exactly the positions
\* renderLine sets and AA pixels at exactly the positions renderLineAA sets,
\* and every pixel set during phase 1 has the colour renderLineAA gives it.
C7_VariantEquivalence ==
    Done("renderDecayLine") =>
        /\ MainPos(img) = AllPos(LineRun)
        /\ MainPos(img) = MainPos(AaRun)
        /\ AaPos(img) = AaPos(AaRun)
        /\ \A i \in Phase1Idx(img) :
               /\ i <= Len(AaRun)
               /\ img[i].pos = AaRun[i].pos
               /\ img[i].a = AaRun[i].a
               /\ (i \in MainIdx(img)) <=> (i \in MainIdx(AaRun))

\* renderDecayLine has drawn a sloped segment in two non-empty phases
C7_Witness ==
    /\ Done("renderDecayLine") /\ DMinor > 0
    /\ \E i \in AaIdx(img) : img[i].line \in Phase2Lines
    /\ \E i \in AaIdx(img) : img[i].line \notin Phase2Lines
    /\ AaPos(img) = AaPos(AaRun)

(* ------------------------------- C10 ----------------------------------- *)
\* C10: within one call of renderLineAA or renderDecayLine no position is
\* set more than once, and the pixel at the split point of renderDecayLine
\* is drawn once, by phase 1, at the base alpha.
C10_NoOverdraw ==
    fn \in {"renderLineAA", "renderDecayLine"} =>
        /\ \A i, j \in 1..Len(img) : i # j => img[i].pos # img[j].pos
        /\ (fn = "renderDecayLine" /\ pc \in {"xsplit", "ysplit", "x2", "y2", "done"} =>
               \E i \in MainIdx(img) :
                   /\ img[i].pos[Major] = split
                   /\ img[i].line \notin Phase2Lines
                   /\ img[i].a = BaseAlpha
                   /\ \A j \in 1..Len(img) : img[j].pos = img[i].pos => j = i)

\* renderDecayLine has drawn AA pixels in both phases of a sloped segment
C10_Witness ==
    /\ Done("renderDecayLine") /\ DMinor > 1
    /\ split # startPos[Major] /\ split # endPos[Major]
    /\ Cardinality(AllPos(img)) = Len(img)

(* ------------------------------- C9 ------------------------------------ *)
\* C9: every pixel write, main or AA, of the three functions lies in the
\* bounding box of start and end.
C9_BoundingBox ==
    \A i \in 1..Len(img) :
        /\ Between(img[i].pos[1], startPos[1], endPos[1])
        /\ Between(img[i].pos[2], startPos[2], endPos[2])

\* a call has drawn AA pixels and returned
C9_Witness ==
    /\ pc = "done" /\ AaIdx(img) # {} /\ DMinor > 1
    /\ \A i \in 1..Len(img) : InBuffer(img[i].pos)
(* ------------------------------- C2 ------------------------------------ *)
\* every main-line pixel is drawn by phase 1 with the base alpha
AllPhase1 ==
    \A i \in MainIdx(img) :
        img[i].line \notin Phase2Lines /\ img[i].a = BaseAlpha

\* every main-line pixel after the one at end is drawn by phase 2 with a
\* decayed alpha
AllPhase2 ==
    \A i \in MainIdx(img) \ {1} :
        /\ img[i].line \in Phase2Lines
        /\ (RLess(img[i].a, BaseAlpha) \/ BaseAlpha = Zero)

\* C2 as stated: for start # end, decaySectionRate = 0 makes the entire
\* segment phase 2 and decaySectionRate = 1 makes the entire segment phase 1.
C2_EdgeRatesAsStated ==
    (Done("renderDecayLine") /\ startPos # endPos) =>
        /\ (decaySectionRate = Zero => AllPhase2)
        /\ (decaySectionRate = One => AllPhase1)

\* C2 amended: for start # end, decaySectionRate = 0 (after clamping) makes
\* the entire segment phase 1: every main pixel, the one at start included,
\* has the base alpha; decaySectionRate = 1 (after clamping) makes the entire
\* segment phase 2: every main pixel after the one at end has a decayed alpha.
C2_EdgeRates ==
    (Done("renderDecayLine") /\ startPos # endPos) =>
        /\ (decaySectionRate = Zero => AllPhase1)
        /\ (decaySectionRate = One => AllPhase2)

\* renderDecayLine has drawn a segment of several pixels with rate 1
C2_Witness ==
    /\ Done("renderDecayLine") /\ DMajor >= 2 /\ decaySectionRate = One
    /\ RLess(Zero, BaseAlpha)
    /\ AllPhase2

(* ------------------------------- C3 ------------------------------------ *)
\* the alpha of the main-line pixel drawn at major coordinate c
AlphaAt(c) ==
    LET i == CHOOSE i \in MainIdx(img) : img[i].pos[Major] = c IN img[i].a

RateInside == RLess(Zero, decaySectionRate) /\ RLess(decaySectionRate, One)

\* C3 as stated: for any start and end, positive base alpha and
\* 0 < decaySectionRate < 1, the main pixel at start has alpha strictly less
\* than the main pixel at the split point.
C3_DecayAsStated ==
    (Done("renderDecayLine") /\ RLess(Zero, BaseAlpha) /\ RateInside) =>
        RLess(AlphaAt(startPos[Major]), AlphaAt(split))

\* C3 amended: the same, provided the truncated decay length
\* trunc((end[major] - start[major]) * decaySectionRate) is not zero, that is
\* the split point is not start itself.
C3_DecayWhenSplitOffStart ==
    (Done("renderDecayLine") /\ RLess(Zero, BaseAlpha) /\ RateInside
        /\ decayLen # 0) =>
        RLess(AlphaAt(startPos[Major]), AlphaAt(split))

\* renderDecayLine has faded a segment whose split point lies strictly
\* between end and start
C3_Witness ==
    /\ Done("renderDecayLine") /\ RLess(Zero, BaseAlpha) /\ RateInside
    /\ decayLen # 0 /\ split # endPos[Major]
    /\ RLess(AlphaAt(startPos[Major]), AlphaAt(split))

(* ------------------------------- C8 ------------------------------------ *)
\* the number of phase-2 main-line pixels among the first i writes
Phase2Mains(i) ==
    Cardinality({j \in 1..i : img[j].line \in (Phase2Lines \cap MainLines)})

\* a * (1 + L - k) / (1 + L)
FadedAlpha(a, L, k) == Rat(a[1] * (1 + L - k), a[2] * (1 + L))

\* C8: with L = |decayLen| > 0 and a the base alpha, the k-th main pixel
\* after the split has alpha a*(1+L-k)/(1+L), its AA pixels have that alpha
\* times aaColorRate, L is the number of phase-2 main pixels, and the main
\* pixel at start has alpha a/(1+L), above zero whenever a > 0.
C8_LinearFade ==
    (fn = "renderDecayLine" /\ pc \in {"x2", "y2", "done"} /\ decayLen # 0) =>
        LET L == Abs(decayLen)
            a == BaseAlpha
        IN  /\ \A i \in 1..Len(img) :
                   img[i].line \in Phase2Lines =>
                       IF i \in MainIdx(img)
                       THEN img[i].a = FadedAlpha(a, L, Phase2Mains(i))
                       ELSE img[i].a = RMul(FadedAlpha(a, L, Phase2Mains(i) + 1),
                                            aaColorRate)
            /\ Phase2Mains(Len(img)) <= L
            /\ (pc = "done" =>
                   /\ Phase2Mains(Len(img)) = L
                   /\ img[Len(img)].pos[Major] = startPos[Major]
                   /\ img[Len(img)].a = Rat(a[1], a[2] * (1 + L))
                   /\ (RLess(Zero, a) => RLess(Zero, img[Len(img)].a)))

\* a fade over several pixels of a sloped segment has reached start
C8_Witness ==
    /\ Done("renderDecayLine") /\ Abs(decayLen) >= 2 /\ RLess(Zero, BaseAlpha)
    /\ \E i \in AaIdx(img) : img[i].line \in Phase2Lines /\ RLess(Zero, img[i].a)
    /\ img[Len(img)].a = Rat(BaseAlpha[1], BaseAlpha[2] * (1 + Abs(decayLen)))
====
